---- MODULE Spec2Model ----
(***************************************************************************)
(* Traffic Source Analyzer of the blog server (src/unnamed/part_000,       *)
(* lines 191-607): the UTM parser, the channel classifier, the date        *)
(* normaliser, the aggregation pipeline of processTrafficFile, the insight *)
(* generator and the upload endpoint.                                      *)
(*                                                                         *)
(* JavaScript strings are TLA+ strings (Len, \o and SubSeq act on them).   *)
(* JavaScript numbers are integers here: prices are whole currency units   *)
(* and serial dates whole days; quotients are kept as exact fractions.     *)
(***************************************************************************)
EXTENDS Integers, Sequences, FiniteSets, TLC

VARIABLES
    pc,     \* position of the upload endpoint: "idle" or "handling"
    req,    \* the request being handled (req.file of multer), or NoRequest
    res,    \* the response sent for the last request, or NoResponse
    call,   \* the helper function last called directly, with its arguments
    ret,    \* what that call returned
    sent,   \* how many responses have been sent for the request
    polluted \* the members of Object.prototype that requests have written to

vars == <<pc, req, res, call, ret, sent, polluted>>

(***************************************************************************)
(* String primitives of the JavaScript runtime                             *)
(***************************************************************************)

\* s[i] as a one-character string (1-based).
CharAt(s, i) == SubSeq(s, i, i)

\* s.slice(i-1): the suffix that starts at the i-th character.
Suffix(s, i) == SubSeq(s, i, Len(s))

UpperChars == "ABCDEFGHIJKLMNOPQRSTUVWXYZ"
LowerChars == "abcdefghijklmnopqrstuvwxyz"
DigitChars == "0123456789"

\* The byte-order marker U+FEFF, written as a one-character token that no
\* other string of the model contains.
BOM == "~"

IsUpper(c) == \E i \in 1..Len(UpperChars) : CharAt(UpperChars, i) = c
IsDigit(c) == \E i \in 1..Len(DigitChars) : CharAt(DigitChars, i) = c
DigitVal(c) == (CHOOSE i \in 1..Len(DigitChars) : CharAt(DigitChars, i) = c) - 1
IsSpace(c) == c \in {" ", "\t"}

LowerChar(c) ==
    IF IsUpper(c)
    THEN CharAt(LowerChars, CHOOSE i \in 1..Len(UpperChars) : CharAt(UpperChars, i) = c)
    ELSE c

\* String.prototype.toLowerCase
RECURSIVE toLowerCase(_)
toLowerCase(s) ==
    IF Len(s) = 0 THEN "" ELSE LowerChar(CharAt(s, 1)) \o toLowerCase(Suffix(s, 2))

\* String.prototype.includes
includes(s, sub) ==
    \E i \in 1..(Len(s) - Len(sub) + 1) : SubSeq(s, i, i + Len(sub) - 1) = sub

\* String.prototype.endsWith
endsWith(s, suf) ==
    /\ Len(suf) <= Len(s)
    /\ SubSeq(s, Len(s) - Len(suf) + 1, Len(s)) = suf

\* String.prototype.trim
RECURSIVE trimStart(_)
trimStart(s) ==
    IF Len(s) > 0 /\ IsSpace(CharAt(s, 1)) THEN trimStart(Suffix(s, 2)) ELSE s

RECURSIVE trimEnd(_)
trimEnd(s) ==
    IF Len(s) > 0 /\ IsSpace(CharAt(s, Len(s)))
    THEN trimEnd(SubSeq(s, 1, Len(s) - 1))
    ELSE s

trim(s) == trimEnd(trimStart(s))

\* Position of the first occurrence of the one-character separator, 0 if none.
IndexOfChar(s, c) ==
    IF \E i \in 1..Len(s) : CharAt(s, i) = c
    THEN CHOOSE i \in 1..Len(s) :
            /\ CharAt(s, i) = c
            /\ \A j \in 1..(i - 1) : CharAt(s, j) # c
    ELSE 0

\* String.prototype.split(sep) for a one-character separator: "" splits to <<"">>.
RECURSIVE split(_, _)
split(s, sep) ==
    LET i == IndexOfChar(s, sep)
    IN  IF i = 0 THEN <<s>>
        ELSE <<SubSeq(s, 1, i - 1)>> \o split(Suffix(s, i + 1), sep)

\* String.prototype.split(sep, 2): the first two pieces only.
split2(s, sep) ==
    LET all == split(s, sep)
    IN  IF Len(all) <= 2 THEN all ELSE SubSeq(all, 1, 2)

\* a.localeCompare(b) < 0 for strings of digits and dashes.
CollationOrder == "-0123456789"
CharRank(c) ==
    IF \E i \in 1..Len(CollationOrder) : CharAt(CollationOrder, i) = c
    THEN CHOOSE i \in 1..Len(CollationOrder) : CharAt(CollationOrder, i) = c
    ELSE Len(CollationOrder) + 1

RECURSIVE StringLess(_, _)
StringLess(a, b) ==
    IF Len(b) = 0 THEN FALSE
    ELSE IF Len(a) = 0 THEN TRUE
    ELSE IF CharAt(a, 1) = CharAt(b, 1) THEN StringLess(Suffix(a, 2), Suffix(b, 2))
    ELSE CharRank(CharAt(a, 1)) < CharRank(CharAt(b, 1))

(***************************************************************************)
(* parseTrafficSource and classifyChannel                                  *)
(***************************************************************************)

NOT_SET == "(not set)"

\* JavaScript values that reach the helpers: strings, numbers, undefined.
Str(s) == [t |-> "string", s |-> s, n |-> 0]
Num(n) == [t |-> "number", s |-> "", n |-> n]
Undefined == [t |-> "undefined", s |-> "", n |-> 0]
Null == [t |-> "null", s |-> "", n |-> 0]
Bool(b) == [t |-> "boolean", s |-> "", n |-> IF b THEN 1 ELSE 0]

\* !v : undefined, null, "" and 0 are falsy.
Falsy(v) ==
    \/ v.t \in {"undefined", "null"}
    \/ v.t = "string" /\ v.s = ""
    \/ v.t = "number" /\ v.n = 0
    \/ v.t = "boolean" /\ v.n = 0

RECURSIVE NatToString(_)
NatToString(n) ==
    IF n < 10 THEN CharAt(DigitChars, n + 1)
    ELSE NatToString(n \div 10) \o CharAt(DigitChars, (n % 10) + 1)

\* String(v) for the values above.
ToStr(v) ==
    CASE v.t = "string" -> v.s
      [] v.t = "number" -> IF v.n < 0 THEN "-" \o NatToString(-v.n) ELSE NatToString(v.n)
      [] v.t = "undefined" -> "undefined"
      [] v.t = "boolean" -> IF v.n = 1 THEN "true" ELSE "false"
      [] OTHER -> "null"

\* const v = value ? value.trim() : "(not set)"
TrimmedValue(value) == IF value # "" THEN trim(value) ELSE NOT_SET

\* v || "(not set)"
OrNotSet(v) == IF v # "" THEN v ELSE NOT_SET

\* The if / else-if chain over the key k of a pair: the field it names takes v.
SetField(result, k, v) ==
    CASE k = "utmcsr" -> [result EXCEPT !.source = v]
      [] k = "utmcmd" -> [result EXCEPT !.medium = v]
      [] k = "utmccn" -> [result EXCEPT !.campaign = v]
      [] OTHER -> result

ApplyPair_KeepEmptyValue(result, pair) ==
    IF ~includes(pair, "=") THEN result
    ELSE SetField(result,
                  toLowerCase(trim(split2(pair, "=")[1])),
                  TrimmedValue(split2(pair, "=")[2]))

\* One iteration of the for-loop of parseTrafficSource over a pair.
ApplyPair(result, pair) ==
    IF ~includes(pair, "=") THEN result
    ELSE SetField(result,
                  toLowerCase(trim(split2(pair, "=")[1])),
                  OrNotSet(TrimmedValue(split2(pair, "=")[2])))

RECURSIVE ApplyPairs(_, _)
ApplyPairs(result, pairs) ==
    IF pairs = <<>> THEN result
    ELSE ApplyPairs(ApplyPair(result, Head(pairs)), Tail(pairs))

parseTrafficSource(trafficSource) ==
    LET unset == [source |-> NOT_SET, medium |-> NOT_SET, campaign |-> NOT_SET]
    IN  IF Falsy(trafficSource) THEN unset
        ELSE ApplyPairs(unset, split(ToStr(trafficSource), "|"))

social == <<"facebook", "instagram", "twitter", "linkedin", "tiktok", "youtube", "pinterest">>

classifyChannel_ReferralAfterSocial(source, medium) ==
    LET s == toLowerCase(source)
        m == toLowerCase(medium)
    IN  IF m = "cpc" THEN "Paid Search"
        ELSE IF m = "organic" THEN "Organic Search"
        ELSE IF s = "(direct)" \/ m = "(none)" THEN "Direct"
        ELSE IF m = "email" THEN "Email Marketing"
        ELSE IF \E i \in 1..Len(social) : includes(s, social[i]) THEN "Social"
        ELSE IF m = "referral" THEN "Referral"
        ELSE "Other"

classifyChannel(source, medium) ==
    LET s == toLowerCase(source)
        m == toLowerCase(medium)
    IN  IF m = "cpc" THEN "Paid Search"
        ELSE IF m = "organic" THEN "Organic Search"
        ELSE IF s = "(direct)" \/ m = "(none)" THEN "Direct"
        ELSE IF m = "email" THEN "Email Marketing"
        ELSE IF m = "referral" THEN "Referral"
        ELSE IF \E i \in 1..Len(social) : includes(s, social[i]) THEN "Social"
        ELSE "Other"

(***************************************************************************)
(* parseOrderDate                                                          *)
(***************************************************************************)

\* Days from 1970-01-01 to new Date(1899, 11, 30), the epoch of serial dates.
\* The server's local time zone is taken to be UTC, so that adding whole days
\* of milliseconds moves the local calendar date by whole days.
ExcelEpochDay == -25569

\* Date.prototype.getFullYear and getMonth() + 1 of the date `day` days after
\* 1970-01-01 (proleptic Gregorian calendar, as ECMAScript's Date).
YearMonthOfDay(day) ==
    LET z == day + 719468
        era == z \div 146097
        doe == z - era * 146097
        yoe == (doe - doe \div 1460 + doe \div 36524 - doe \div 146096) \div 365
        doy == doe - (365 * yoe + yoe \div 4 - yoe \div 100)
        mp == (5 * doy + 2) \div 153
        m == IF mp < 10 THEN mp + 3 ELSE mp - 9
        y == yoe + era * 400 + (IF m <= 2 THEN 1 ELSE 0)
    IN  [year |-> y, month |-> m]

\* String(n).padStart(2, '0') for n >= 0
padStart2(n) == IF n < 10 THEN "0" \o NatToString(n) ELSE NatToString(n)

\* Whether /(\d{2})\/(\d{2})\/(\d{4})/ matches s at position i.
DateRegexAt(s, i) ==
    /\ i + 9 <= Len(s)
    /\ \A j \in {0, 1, 3, 4, 6, 7, 8, 9} : IsDigit(CharAt(s, i + j))
    /\ CharAt(s, i + 2) = "/"
    /\ CharAt(s, i + 5) = "/"

\* `${year}-${month}` of the date of a serial number
SerialMonth(ym) == Str(ToStr(Num(ym.year)) \o "-" \o padStart2(ym.month))

\* dateStr.match(...) and `${year}-${month}` of the leftmost match, or null
MatchedMonth(dateStr) ==
    IF \E i \in 1..Len(dateStr) : DateRegexAt(dateStr, i)
    THEN LET i == CHOOSE k \in 1..Len(dateStr) :
                       /\ DateRegexAt(dateStr, k)
                       /\ \A j \in 1..(k - 1) : ~DateRegexAt(dateStr, j)
         IN  Str(SubSeq(dateStr, i + 6, i + 9) \o "-" \o SubSeq(dateStr, i + 3, i + 4))
    ELSE Null

parseOrderDate(dateValue) ==
    IF Falsy(dateValue) THEN Null
    ELSE IF dateValue.t = "number"
    THEN SerialMonth(YearMonthOfDay(ExcelEpochDay + dateValue.n))
    ELSE MatchedMonth(ToStr(dateValue))

\* extractEmailCampaignId: the digits that follow the first
\* "flashyapp_automation_" which is followed by a digit.
FLASHY == "flashyapp_automation_"

RECURSIVE DigitRun(_, _)
DigitRun(s, i) ==
    IF i <= Len(s) /\ IsDigit(CharAt(s, i)) THEN CharAt(s, i) \o DigitRun(s, i + 1) ELSE ""

FlashyAt(s, i) ==
    /\ i + Len(FLASHY) <= Len(s)
    /\ SubSeq(s, i, i + Len(FLASHY) - 1) = FLASHY
    /\ IsDigit(CharAt(s, i + Len(FLASHY)))

extractEmailCampaignId(trafficSource) ==
    IF Falsy(trafficSource) THEN Null
    ELSE LET s == ToStr(trafficSource)
         IN  IF \E i \in 1..Len(s) : FlashyAt(s, i)
             THEN LET i == CHOOSE k \in 1..Len(s) :
                                /\ FlashyAt(s, k)
                                /\ \A j \in 1..(k - 1) : ~FlashyAt(s, j)
                  IN  Str(DigitRun(s, i + Len(FLASHY)))
             ELSE Null

(***************************************************************************)
(* Direct calls of the helper functions                                    *)
(***************************************************************************)

NoCall == [fn |-> "none", args |-> <<>>]

\* Longest list of "|"-joined pairs in a sampled traffic_source string.
MaxPairs == 3

SourceSamples ==
    {"google", "(direct)", "(DIRECT)", "facebook.com", "FaceBook.com", "m.Instagram.com",
     "newsletter", NOT_SET, "t.co", "YouTube", "chatgpt.com"}

MediumSamples ==
    {"cpc", "CPC", "organic", "Organic", "(none)", "(None)", "email", "Email",
     "referral", "Referral", NOT_SET, "social", "cpc "}

PairSamples ==
    {"utmcsr=google", "UTMCSR=Bing", "utmcmd=cpc", "utmcmd=", "utmccn=spring",
     "utmcsr", " utmcmd = email ", "utmccn=a=b", "utmcsr= ", "gclid=1", ""}

RECURSIVE JoinedPairs(_)
JoinedPairs(n) ==
    IF n = 1 THEN PairSamples
    ELSE LET shorter == JoinedPairs(n - 1)
         IN  shorter \cup {p \o "|" \o q : p \in shorter, q \in PairSamples}

TrafficSourceSamples ==
    {Str(s) : s \in JoinedPairs(MaxPairs)} \cup {Undefined, Null, Num(0), Num(5)}

\* The value of ret while the call has not returned.
Pending == [done |-> FALSE, value |-> Null]
Returned(v) == [done |-> TRUE, value |-> v]

ClassifyCalls ==
    {[fn |-> "classifyChannel", args |-> <<s, m>>] : s \in SourceSamples, m \in MediumSamples}

ParseCalls ==
    {[fn |-> "parseTrafficSource", args |-> <<ts>>] : ts \in TrafficSourceSamples}

Call_classifyChannel ==
    /\ call.fn = "classifyChannel"
    /\ ~ret.done
    /\ ret' = Returned(classifyChannel(call.args[1], call.args[2]))
    /\ UNCHANGED <<pc, req, res, call, sent, polluted>>

Call_parseTrafficSource ==
    /\ call.fn = "parseTrafficSource"
    /\ ~ret.done
    /\ ret' = Returned(parseTrafficSource(call.args[1]))
    /\ UNCHANGED <<pc, req, res, call, sent, polluted>>

\* Serial dates sampled on both sides of the epoch: -SerialSpan .. SerialSpan.
SerialSpan == 70

SerialSamples ==
    (-SerialSpan..SerialSpan) \cup {366, 25569, 36526, 45291, 45292, 45351, 45352, 45657, 45658}

DateStringSamples ==
    {"05/03/2024", "31/12/1999", "05/13/2024", "05/00/2024", "2024-03-05", "5/3/2024",
     "x05/03/2024y", "105/03/20245", "05/03/24", "", "05-03-2024", "01/01/2025 10:30"}

DateValueSamples ==
    {Num(n) : n \in SerialSamples} \cup {Str(s) : s \in DateStringSamples}
        \cup {Undefined, Null, Bool(TRUE), Bool(FALSE)}

DateCalls ==
    {[fn |-> "parseOrderDate", args |-> <<v>>] : v \in DateValueSamples}

Call_parseOrderDate ==
    /\ call.fn = "parseOrderDate"
    /\ ~ret.done
    /\ ret' = Returned(parseOrderDate(call.args[1]))
    /\ UNCHANGED <<pc, req, res, call, sent, polluted>>

NoRequest == [hasFile |-> FALSE, originalname |-> "", buffer |-> [error |-> "", header |-> <<>>, runs |-> <<>>]]
NoResponse == [status |-> 0, error |-> "", body |-> [none |-> TRUE]]

InitPure ==
    /\ pc = "idle"
    /\ req = NoRequest
    /\ res = NoResponse
    /\ call \in ClassifyCalls \cup ParseCalls \cup DateCalls
    /\ ret = Pending
    /\ sent = 0
    /\ polluted = {}

NextPure ==
    \/ Call_classifyChannel
    \/ Call_parseTrafficSource
    \/ Call_parseOrderDate

SpecPure == InitPure /\ [][NextPure]_vars

(***************************************************************************)
(* Claims about the helper functions, checked under SpecPure               *)
(***************************************************************************)

\* Two characters that are equal, or the two cases of one letter.
SameLetter(c, d) ==
    \/ c = d
    \/ \E k \in 1..Len(UpperChars) : {c, d} = {CharAt(UpperChars, k), CharAt(LowerChars, k)}

EqIgnoreCase(a, b) ==
    /\ Len(a) = Len(b)
    /\ \A i \in 1..Len(a) : SameLetter(CharAt(a, i), CharAt(b, i))

ContainsIgnoreCase(s, sub) ==
    \E i \in 1..(Len(s) - Len(sub) + 1) : EqIgnoreCase(SubSeq(s, i, i + Len(sub) - 1), sub)

\* The rule list of the channel classifier: rule i applies to (s, m).
RuleApplies(i, s, m) ==
    CASE i = 1 -> EqIgnoreCase(m, "cpc")
      [] i = 2 -> EqIgnoreCase(m, "organic")
      [] i = 3 -> EqIgnoreCase(s, "(direct)") \/ EqIgnoreCase(m, "(none)")
      [] i = 4 -> EqIgnoreCase(m, "email")
      [] i = 5 -> EqIgnoreCase(m, "referral")
      [] i = 6 -> \E k \in 1..Len(social) : ContainsIgnoreCase(s, social[k])
      [] OTHER -> TRUE

RuleOutcome ==
    <<"Paid Search", "Organic Search", "Direct", "Email Marketing", "Referral", "Social", "Other">>

\* C1: classifyChannel(source, medium) is the outcome of the first rule of the
\* ordered list that applies, compared case-insensitively; a social source
\* with medium referral is Referral, and ("(direct)", "(none)") is Direct.
C1_ClassifyChannelFirstMatch ==
    (call.fn = "classifyChannel" /\ ret.done) =>
        LET s == call.args[1]
            m == call.args[2]
            first == CHOOSE i \in 1..Len(RuleOutcome) :
                        /\ RuleApplies(i, s, m)
                        /\ \A j \in 1..(i - 1) : ~RuleApplies(j, s, m)
        IN  /\ ret.value = RuleOutcome[first]
            /\ (s = "facebook.com" /\ m = "referral") => ret.value = "Referral"
            /\ (s = "(direct)" /\ m = "(none)") => ret.value = "Direct"

C1_Witness ==
    /\ call.fn = "classifyChannel"
    /\ ret.done
    /\ call.args = <<"FaceBook.com", "Referral">>
    /\ ret.value = "Referral"

\* The text of a pair before its first "=", trimmed.
PairKey(pair) == trim(SubSeq(pair, 1, IndexOfChar(pair, "=") - 1))

\* The text of a pair between its first "=" and its next "=" (or its end), trimmed.
PairValue(pair) ==
    LET rest == Suffix(pair, IndexOfChar(pair, "=") + 1)
        j == IndexOfChar(rest, "=")
    IN  trim(IF j = 0 THEN rest ELSE SubSeq(rest, 1, j - 1))

\* The pairs of the list that carry the key.
Carriers(pairs, key) ==
    {i \in 1..Len(pairs) :
        /\ IndexOfChar(pairs[i], "=") > 0
        /\ EqIgnoreCase(PairKey(pairs[i]), key)}

FieldFollowsKey(pairs, key, field) ==
    LET c == Carriers(pairs, key)
    IN  /\ (\A i \in c : PairValue(pairs[i]) = "") => field = NOT_SET
        /\ (Cardinality(c) = 1 /\ \A i \in c : PairValue(pairs[i]) # "")
                => \A i \in c : field = PairValue(pairs[i])

\* C2: parseTrafficSource maps the pairs keyed utmcsr, utmcmd, utmccn (in any
\* case) to source, medium, campaign; a field whose key is absent, has no "="
\* or has an empty value is "(not set)"; empty or absent input gives the
\* sentinel three times and channel Other; the spring example gives
\* google / cpc / spring and Paid Search.
C2_ParseTrafficSourceFields ==
    (call.fn = "parseTrafficSource" /\ ret.done) =>
        LET v == call.args[1]
            r == ret.value
        IN  /\ Falsy(v) =>
                /\ r = [source |-> NOT_SET, medium |-> NOT_SET, campaign |-> NOT_SET]
                /\ classifyChannel(r.source, r.medium) = "Other"
            /\ ~Falsy(v) =>
                LET pairs == split(ToStr(v), "|")
                IN  /\ FieldFollowsKey(pairs, "utmcsr", r.source)
                    /\ FieldFollowsKey(pairs, "utmcmd", r.medium)
                    /\ FieldFollowsKey(pairs, "utmccn", r.campaign)
            /\ v = Str("utmcsr=google|utmcmd=cpc|utmccn=spring") =>
                /\ r = [source |-> "google", medium |-> "cpc", campaign |-> "spring"]
                /\ classifyChannel(r.source, r.medium) = "Paid Search"

C2_Witness ==
    /\ call.fn = "parseTrafficSource"
    /\ ret.done
    /\ call.args[1] = Str("UTMCSR=Bing|utmcmd=|utmcsr")
    /\ ret.value = [source |-> "Bing", medium |-> NOT_SET, campaign |-> NOT_SET]

IsLeapYear(y) == (y % 4 = 0 /\ y % 100 # 0) \/ y % 400 = 0

DaysInMonth(y, m) ==
    IF m = 2 THEN (IF IsLeapYear(y) THEN 29 ELSE 28)
    ELSE IF m \in {4, 6, 9, 11} THEN 30 ELSE 31

\* Days from 0001-01-01 to the first of January of year y.
DaysBeforeYear(y) == 365 * (y - 1) + (y - 1) \div 4 - (y - 1) \div 100 + (y - 1) \div 400

RECURSIVE DaysBeforeMonth(_, _)
DaysBeforeMonth(y, m) ==
    IF m = 1 THEN 0 ELSE DaysBeforeMonth(y, m - 1) + DaysInMonth(y, m - 1)

\* Days from 0001-01-01 to the calendar date y-m-d.
DayNumber(y, m, d) == DaysBeforeYear(y) + DaysBeforeMonth(y, m) + d - 1

\* The calendar month that holds the date 1899-12-30 plus n days.
MonthOfSerial(n) ==
    LET target == DayNumber(1899, 12, 30) + n
        near == 1900 + n \div 365
    IN  CHOOSE ym \in [year : (near - 2)..(near + 2), month : 1..12] :
            /\ DayNumber(ym.year, ym.month, 1) <= target
            /\ target < DayNumber(ym.year, ym.month, 1) + DaysInMonth(ym.year, ym.month)

\* A string that is exactly DD/MM/YYYY: ten characters, digits around two slashes.
IsDDMMYYYY(s) == Len(s) = 10 /\ DateRegexAt(s, 1)

\* "YYYY-MM" with a month from 01 to 12.
IsMonthKey(s) ==
    /\ Len(s) = 7
    /\ \A i \in {1, 2, 3, 4, 6, 7} : IsDigit(CharAt(s, i))
    /\ CharAt(s, 5) = "-"
    /\ SubSeq(s, 6, 7) \in {padStart2(m) : m \in 1..12}

\* The reference of the date normaliser: a serial date n is the month of
\* 1899-12-30 plus n days, a DD/MM/YYYY string is its year and month, anything
\* else is nothing.
ReferenceOrderMonth(v) ==
    IF v.t = "number"
    THEN LET ym == MonthOfSerial(v.n)
         IN  Str(NatToString(ym.year) \o "-" \o padStart2(ym.month))
    ELSE IF v.t = "string" /\ IsDDMMYYYY(v.s)
    THEN Str(SubSeq(v.s, 7, 10) \o "-" \o SubSeq(v.s, 4, 5))
    ELSE Null

\* C10: parseOrderDate equals the reference on every input, and every key it
\* returns is a four-digit year, a dash and a month from 01 to 12.
C10_ParseOrderDateIsReference ==
    (call.fn = "parseOrderDate" /\ ret.done) =>
        /\ ret.value = ReferenceOrderMonth(call.args[1])
        /\ ret.value # Null => IsMonthKey(ret.value.s)

(***************************************************************************)
(* Numbers of the report: quotients of integers, as JavaScript computes    *)
(* them (x / 0 is NaN or an infinity), kept as exact fractions             *)
(***************************************************************************)

RECURSIVE Gcd(_, _)
Gcd(a, b) == IF b = 0 THEN a ELSE Gcd(b, a % b)

Abs(a) == IF a < 0 THEN -a ELSE a

\* The fraction num / den (den > 0) in lowest terms, so that equal numbers
\* are equal records.
Fin(num, den) ==
    LET g == Gcd(Abs(num), den)
    IN  [kind |-> "finite", num |-> num \div g, den |-> den \div g]
NaN == [kind |-> "NaN", num |-> 0, den |-> 1]
Infinity(sign) == [kind |-> "Infinity", num |-> sign, den |-> 1]

\* a / b for integers a and b
JsDiv(a, b) ==
    IF b = 0 THEN (IF a = 0 THEN NaN ELSE Infinity(IF a > 0 THEN 1 ELSE -1))
    ELSE IF b > 0 THEN Fin(a, b) ELSE Fin(-a, -b)

\* x * 100
Times100(x) == IF x.kind = "finite" THEN Fin(x.num * 100, x.den) ELSE x

\* x + y
JsAdd(x, y) ==
    IF x.kind = "NaN" \/ y.kind = "NaN" THEN NaN
    ELSE IF x.kind = "Infinity" /\ y.kind = "Infinity"
    THEN (IF x.num = y.num THEN x ELSE NaN)
    ELSE IF x.kind = "Infinity" THEN x
    ELSE IF y.kind = "Infinity" THEN y
    ELSE LET l == (x.den \div Gcd(x.den, y.den)) * y.den
         IN  Fin(x.num * (l \div x.den) + y.num * (l \div y.den), l)

\* x < y ; every comparison with NaN is false
JsLess(x, y) ==
    IF x.kind = "NaN" \/ y.kind = "NaN" THEN FALSE
    ELSE IF x.kind = "Infinity" THEN x.num < 0 /\ ~(y.kind = "Infinity" /\ y.num < 0)
    ELSE IF y.kind = "Infinity" THEN y.num > 0
    ELSE x.num * y.den < y.num * x.den

\* x * (p / q) for the decimal constants 1.2 = 12/10 and 0.8 = 8/10
TimesRatio(x, p, q) == IF x.kind = "finite" THEN Fin(x.num * p, x.den * q) ELSE x

\* The integer a decimal string starts with (after leading blanks and a sign),
\* or NaN: parseFloat on strings of whole numbers.
RECURSIVE DigitsValue(_, _)
DigitsValue(s, acc) ==
    IF Len(s) > 0 /\ IsDigit(CharAt(s, 1))
    THEN DigitsValue(Suffix(s, 2), acc * 10 + DigitVal(CharAt(s, 1)))
    ELSE acc

\* The number of the digits a string starts with, negated if neg.
ParseDigits(body, neg) ==
    IF Len(body) > 0 /\ IsDigit(CharAt(body, 1))
    THEN [nan |-> FALSE, n |-> (IF neg THEN -1 ELSE 1) * DigitsValue(body, 0)]
    ELSE [nan |-> TRUE, n |-> 0]

\* The number of a string that starts with an optional sign.
ParseSigned(s) ==
    ParseDigits(IF Len(s) > 0 /\ CharAt(s, 1) \in {"-", "+"} THEN Suffix(s, 2) ELSE s,
                Len(s) > 0 /\ CharAt(s, 1) = "-")

parseFloat(v) == ParseSigned(trimStart(ToStr(v)))

\* f || 0
OrZero(f) == IF f.nan THEN 0 ELSE f.n

\* parseFloat(v) || 0
parseFloatOrZero(v) == OrZero(parseFloat(v))

(***************************************************************************)
(* Decoded rows.  A sheet is a header (the column names) and data rows; a  *)
(* run [cells, n] stands for n consecutive rows with the same cells, so    *)
(* that files as long as the row cap can be written down.  The row objects *)
(* of sheet_to_json have the header's names as keys, in header order.      *)
(***************************************************************************)

RECURSIVE RowCount(_)
RowCount(runs) == IF runs = <<>> THEN 0 ELSE Head(runs).n + RowCount(Tail(runs))

\* runs.slice(0, k): the first k rows.
RECURSIVE TakeRows(_, _)
TakeRows(runs, k) ==
    IF runs = <<>> \/ k <= 0 THEN <<>>
    ELSE IF Head(runs).n <= k THEN <<Head(runs)>> \o TakeRows(Tail(runs), k - Head(runs).n)
    ELSE <<[Head(runs) EXCEPT !.n = k]>>

\* row[key]: the cell under the column named exactly key, or undefined.
RowGet(header, cells, key) ==
    IF \E i \in 1..Len(header) : header[i] = key
    THEN cells[CHOOSE i \in 1..Len(header) :
                    header[i] = key /\ \A j \in 1..(i - 1) : header[j] # key]
    ELSE Undefined

getRowValue(header, cells, key) ==
    IF RowGet(header, cells, key) # Undefined THEN RowGet(header, cells, key)
    ELSE IF RowGet(header, cells, BOM \o key) # Undefined THEN RowGet(header, cells, BOM \o key)
    ELSE IF \E i \in 1..Len(header) : endsWith(header[i], key)
    THEN cells[CHOOSE i \in 1..Len(header) :
                    endsWith(header[i], key) /\ \A j \in 1..(i - 1) : ~endsWith(header[j], key)]
    ELSE Undefined

\* The body of data.map(row => ...): the enriched record of the rows of one run.
EnrichedRow(n, order_id, price, orderMonth, parsed, emailId) ==
    [n |-> n,
     order_id |-> order_id,
     order_total_price |-> price,
     order_month |-> orderMonth,
     source |-> parsed.source,
     medium |-> parsed.medium,
     campaign |-> parsed.campaign,
     channel |-> classifyChannel(parsed.source, parsed.medium),
     email_campaign_id |-> emailId]

EnrichRow(header, run) ==
    EnrichedRow(run.n,
                RowGet(header, run.cells, "order_id"),
                parseFloatOrZero(RowGet(header, run.cells, "order_total_price")),
                parseOrderDate(getRowValue(header, run.cells, "order_date")),
                parseTrafficSource(RowGet(header, run.cells, "traffic_source")),
                extractEmailCampaignId(RowGet(header, run.cells, "traffic_source")))

EnrichRows(header, runs) == [i \in 1..Len(runs) |-> EnrichRow(header, runs[i])]

(***************************************************************************)
(* The maps channelMap, sourceMap, ... are object literals {}: a lookup of *)
(* a name that Object.prototype defines finds the inherited member, and    *)
(* Object.entries lists the own keys, array indices first in ascending     *)
(* order, then the other keys in the order of their creation.              *)
(***************************************************************************)

ObjectPrototypeKeys ==
    {"constructor", "__proto__", "toString", "toLocaleString", "valueOf", "hasOwnProperty",
     "isPrototypeOf", "propertyIsEnumerable", "__defineGetter__", "__defineSetter__",
     "__lookupGetter__", "__lookupSetter__"}

HasOwn(map, key) == \E i \in 1..Len(map) : map[i].key = key

\* if (!map[key]) map[key] = {orders: 0, revenue: 0}; map[key].orders++;
\* map[key].revenue += price -- for the n rows of a run.  With an inherited
\* member under the key, the test finds it and the updates land on it.
MapAdd(map, key, n, price) ==
    IF HasOwn(map, key)
    THEN [i \in 1..Len(map) |->
            IF map[i].key = key
            THEN [map[i] EXCEPT !.orders = @ + n, !.revenue = @ + n * price]
            ELSE map[i]]
    ELSE IF key \in ObjectPrototypeKeys THEN map
    ELSE Append(map, [key |-> key, orders |-> n, revenue |-> n * price])

\* A canonical array index: "0" or digits without a leading zero, at most
\* 4294967294 (2^32 - 2).
IsArrayIndex(key) ==
    /\ Len(key) > 0
    /\ \A i \in 1..Len(key) : IsDigit(CharAt(key, i))
    /\ key = "0" \/ CharAt(key, 1) # "0"
    /\ Len(key) < 10 \/ (Len(key) = 10 /\ ~StringLess("4294967294", key))

\* Numeric order of two canonical array indices.
IndexLessEq(a, b) == Len(a) < Len(b) \/ (Len(a) = Len(b) /\ ~StringLess(b, a))

\* The entries of the map in the order of Object.entries / Object.values.
RECURSIVE IndexEntriesAscending(_)
IndexEntriesAscending(entries) ==
    IF entries = <<>> THEN <<>>
    ELSE LET least == CHOOSE i \in 1..Len(entries) :
                        \A j \in 1..Len(entries) :
                            IndexLessEq(entries[i].key, entries[j].key)
         IN  <<entries[least]>> \o
                IndexEntriesAscending(SubSeq(entries, 1, least - 1)
                                        \o SubSeq(entries, least + 1, Len(entries)))

ObjectEntries_CreationOrder(map) == map

ObjectEntries(map) ==
    IndexEntriesAscending(SelectSeq(map, LAMBDA e : IsArrayIndex(e.key)))
        \o SelectSeq(map, LAMBDA e : ~IsArrayIndex(e.key))

SortByRevenueDesc_Unsorted(list) == list

\* array.sort((a, b) => b.revenue - a.revenue): stable, descending revenue.
RECURSIVE SortByRevenueDesc(_)
SortByRevenueDesc(list) ==
    IF list = <<>> THEN <<>>
    ELSE LET rest == SortByRevenueDesc(SubSeq(list, 1, Len(list) - 1))
             x == list[Len(list)]
             k == Cardinality({i \in 1..Len(rest) : rest[i].revenue >= x.revenue})
         IN  SubSeq(rest, 1, k) \o <<x>> \o SubSeq(rest, k + 1, Len(rest))

(***************************************************************************)
(* generateInsights                                                        *)
(***************************************************************************)

emerging == <<"chatgpt", "claude", "perplexity", "bard">>

\* Array.prototype.find: the least index whose element passes the test, 0 if
\* none; passes[i] tells whether the i-th element passes.
FirstIndex(passes) ==
    IF \E i \in 1..Len(passes) : passes[i]
    THEN CHOOSE i \in 1..Len(passes) : passes[i] /\ \A j \in 1..(i - 1) : ~passes[j]
    ELSE 0

\* An insight: its type, its icon and the names its text is made of (the
\* Hebrew sentence around them is fixed per icon).
Insight(type, icon, names) == [type |-> type, icon |-> icon, names |-> names]

IsHighAov(c, avgAov) == JsLess(TimesRatio(avgAov, 12, 10), c.avg_order_value)
IsLowAov(c, avgAov) == JsLess(c.avg_order_value, TimesRatio(avgAov, 8, 10)) /\ c.orders >= 10
IsEmerging(src) == \E k \in 1..Len(emerging) : includes(toLowerCase(src.name), emerging[k])

ChannelInsights(summary, channels) ==
    LET avgAov == summary.avg_order_value
        high == FirstIndex([i \in 1..Len(channels) |-> IsHighAov(channels[i], avgAov)])
        lowAov == SelectSeq(channels, LAMBDA c : IsLowAov(c, avgAov))
    IN  IF Len(channels) > 0
        THEN <<Insight("success", "trophy", <<channels[1].name>>)>>
                \o (IF high # 0 THEN <<Insight("info", "gem", <<channels[high].name>>)>> ELSE <<>>)
                \o (IF Len(lowAov) > 0
                    THEN <<Insight("warning", "alert", <<lowAov[Len(lowAov)].name>>)>>
                    ELSE <<>>)
        ELSE <<>>

SourceInsights_NoTop3(sources) ==
    LET found == FirstIndex([i \in 1..Len(sources) |-> IsEmerging(sources[i])])
    IN  IF found # 0 THEN <<Insight("info", "rocket", <<sources[found].name>>)>> ELSE <<>>

SourceInsights(sources) ==
    LET found == FirstIndex([i \in 1..Len(sources) |-> IsEmerging(sources[i])])
    IN  (IF Len(sources) >= 3
         THEN <<Insight("info", "chart", <<sources[1].name, sources[2].name, sources[3].name>>)>>
         ELSE <<>>)
            \o (IF found # 0 THEN <<Insight("info", "rocket", <<sources[found].name>>)>> ELSE <<>>)

EmailInsights(channels) ==
    LET email == FirstIndex([i \in 1..Len(channels) |-> channels[i].name = "Email Marketing"])
    IN  IF email # 0 /\ channels[email].orders >= 10
        THEN <<Insight("info", "mail", <<channels[email].name>>)>>
        ELSE <<>>

generateInsights(summary, channels, sources) ==
    ChannelInsights(summary, channels) \o SourceInsights(sources) \o EmailInsights(channels)

(***************************************************************************)
(* processTrafficFile                                                      *)
(***************************************************************************)

MAX_ROWS == 100000

required == <<"traffic_source", "order_total_price", "order_id">>

\* The messages are Hebrew sentences in the source; each is written here as
\* an English sentence of the same role.  None of them contains the words the
\* catch blocks look for.
MSG_NO_FILE == "no file was uploaded"
MSG_UNSUPPORTED == "unsupported file format, upload CSV or Excel (.xlsx, .xls)"
MSG_EXCEL_FORMATTING == "the Excel file holds formatting that breaks processing, convert it to CSV"
MSG_READ_PREFIX == "error reading the file: "
MSG_MISSING_PREFIX == "missing columns: "
MSG_AVAILABLE_PREFIX == ". available columns: "
MSG_ROW_LIMIT == "the file holds more than 100,000 rows, the analysis is limited to the first 100,000 rows"

\* array.join(", ")
RECURSIVE join(_)
join(list) ==
    IF list = <<>> THEN ""
    ELSE IF Len(list) = 1 THEN list[1]
    ELSE list[1] \o ", " \o join(Tail(list))

\* path.extname(filename).toLowerCase() of a name without directories.
extname(filename) ==
    LET dots == {i \in 1..Len(filename) : CharAt(filename, i) = "."}
        last == CHOOSE i \in dots : \A j \in dots : j <= i
    IN  IF dots = {} \/ last = 1 THEN "" ELSE toLowerCase(Suffix(filename, last))

\* XLSX.read(..., {sheetRows}) and XLSX.utils.sheet_to_json(sheet, {defval: ""}):
\* the decoder throws on bytes it cannot read, and otherwise yields the rows
\* below the header among the first sheetRows rows of the first sheet.
XlsxRead(buffer, sheetRows) ==
    IF buffer.error # ""
    THEN [threw |-> TRUE, message |-> buffer.error, header |-> <<>>, data |-> <<>>]
    ELSE [threw |-> FALSE, message |-> "", header |-> buffer.header,
          data |-> TakeRows(buffer.runs, sheetRows - 1)]

IsOversized(message) == includes(message, "string longer than") \/ includes(message, "memory")

\* Lines 315-350: the decoded rows, or the message of the error thrown.
\* catch (xlsxError) around the decoding of an Excel file
CatchXlsxError(read) ==
    IF read.threw /\ IsOversized(read.message)
    THEN [read EXCEPT !.message = MSG_EXCEL_FORMATTING]
    ELSE read

\* The body of the outer try: the branch of the extension.
TryDecode(ext, buffer) ==
    IF ext = ".csv" THEN XlsxRead(buffer, MAX_ROWS + 1)
    ELSE IF ext = ".xlsx" \/ ext = ".xls" THEN CatchXlsxError(XlsxRead(buffer, MAX_ROWS + 1))
    ELSE [threw |-> TRUE, message |-> MSG_UNSUPPORTED, header |-> <<>>, data |-> <<>>]

\* catch (parseError)
CatchParseError(inner) ==
    IF inner.threw
    THEN [inner EXCEPT !.message = IF IsOversized(inner.message)
                                   THEN MSG_EXCEL_FORMATTING
                                   ELSE MSG_READ_PREFIX \o inner.message]
    ELSE inner

DecodeFile(buffer, filename) == CatchParseError(TryDecode(extname(filename), buffer))

\* required.filter(c => !columns.includes(c))
MissingColumns_FirstOnly(columns) ==
    IF \E i \in 1..Len(columns) : columns[i] = required[1] THEN <<>> ELSE <<required[1]>>

MissingColumns(columns) ==
    SelectSeq(required, LAMBDA c : ~\E i \in 1..Len(columns) : columns[i] = c)

KeyOf(r, dim) ==
    CASE dim = "channel" -> r.channel
      [] dim = "source" -> r.source
      [] dim = "medium" -> r.medium
      [] dim = "combo" -> r.source \o "|||" \o r.medium
      [] dim = "email" -> r.email_campaign_id.s
      [] OTHER -> r.order_month.s

\* rows.forEach(r => { ... }) over the first k rows, for one of the maps.
RECURSIVE BuildMap(_, _, _)
BuildMap(rows, dim, k) ==
    IF k = 0 THEN <<>>
    ELSE MapAdd(BuildMap(rows, dim, k - 1), KeyOf(rows[k], dim), rows[k].n,
                rows[k].order_total_price)

RECURSIVE TotalRevenue(_, _)
TotalRevenue(rows, k) ==
    IF k = 0 THEN 0 ELSE TotalRevenue(rows, k - 1) + rows[k].n * rows[k].order_total_price

AvgOrderValue(orders, revenue) == IF orders > 0 THEN JsDiv(revenue, orders) ELSE Fin(0, 1)

\* One element of channels, sources or mediums.
GroupStats(e, totalOrders, totalRevenue) ==
    [name |-> e.key,
     orders |-> e.orders,
     revenue |-> e.revenue,
     avg_order_value |-> AvgOrderValue(e.orders, e.revenue),
     order_pct |-> Times100(JsDiv(e.orders, totalOrders)),
     revenue_pct |-> Times100(JsDiv(e.revenue, totalRevenue))]

\* Object.entries(map).map(...).sort(...)
GroupList(entries, totalOrders, totalRevenue) ==
    SortByRevenueDesc([i \in 1..Len(entries) |->
                            GroupStats(entries[i], totalOrders, totalRevenue)])

Grouping(rows, dim, totalOrders, totalRevenue) ==
    GroupList(ObjectEntries(BuildMap(rows, dim, Len(rows))), totalOrders, totalRevenue)

\* The first row that created the combination: its source and medium.
ComboStats(e, rows, totalRevenue) ==
    LET first == CHOOSE i \in 1..Len(rows) :
                    /\ KeyOf(rows[i], "combo") = e.key
                    /\ \A j \in 1..(i - 1) : KeyOf(rows[j], "combo") # e.key
    IN  [source |-> rows[first].source,
         medium |-> rows[first].medium,
         orders |-> e.orders,
         revenue |-> e.revenue,
         avg_order_value |-> AvgOrderValue(e.orders, e.revenue),
         revenue_pct |-> Times100(JsDiv(e.revenue, totalRevenue))]

ComboList_CreationOrder(entries, rows, totalRevenue) ==
    [i \in 1..Len(entries) |-> ComboStats(entries[i], rows, totalRevenue)]

\* Object.values(comboMap).map(...).sort(...)
ComboList(entries, rows, totalRevenue) ==
    SortByRevenueDesc([i \in 1..Len(entries) |-> ComboStats(entries[i], rows, totalRevenue)])

\* .slice(0, 10)
Top10(sorted) == IF Len(sorted) <= 10 THEN sorted ELSE SubSeq(sorted, 1, 10)

Combinations(rows, totalRevenue) ==
    Top10(ComboList(ObjectEntries(BuildMap(rows, "combo", Len(rows))), rows, totalRevenue))

\* One element of email_campaigns.
EmailStats(e, totalRevenue) ==
    [campaign_id |-> e.key,
     orders |-> e.orders,
     revenue |-> e.revenue,
     avg_order_value |-> AvgOrderValue(e.orders, e.revenue),
     revenue_pct |-> Times100(JsDiv(e.revenue, totalRevenue))]

\* Object.entries(emailMap).map(...).sort(...)
EmailList(entries, totalRevenue) ==
    SortByRevenueDesc([i \in 1..Len(entries) |-> EmailStats(entries[i], totalRevenue)])

\* emailMap of the rows that carry a campaign id
EmailMap(emailRows) == BuildMap(emailRows, "email", Len(emailRows))

EmailCampaigns(rows, totalRevenue) ==
    EmailList(ObjectEntries(EmailMap(SelectSeq(rows, LAMBDA r : ~Falsy(r.email_campaign_id)))),
              totalRevenue)

\* hebrewMonths, the names transliterated.
hebrewMonths ==
    <<"yanuar", "februar", "merts", "april", "mai", "yuni", "yuli", "ogust", "september",
      "oktober", "november", "detsember">>

MonthName(m) ==
    IF \E k \in 1..12 : padStart2(k) = m
    THEN hebrewMonths[CHOOSE k \in 1..12 : padStart2(k) = m]
    ELSE "undefined"

SortByMonthAsc_InsertionOrder(list) == list

\* array.sort((a, b) => a.month.localeCompare(b.month)): stable, ascending.
RECURSIVE SortByMonthAsc(_)
SortByMonthAsc(list) ==
    IF list = <<>> THEN <<>>
    ELSE LET rest == SortByMonthAsc(SubSeq(list, 1, Len(list) - 1))
             x == list[Len(list)]
             k == Cardinality({i \in 1..Len(rest) : ~StringLess(x.month, rest[i].month)})
         IN  SubSeq(rest, 1, k) \o <<x>> \o SubSeq(rest, k + 1, Len(rest))

\* `${hebrewMonths[m]} ${year}` of const [year, m] = month.split('-')
MonthDisplay(parts) ==
    MonthName(IF Len(parts) >= 2 THEN parts[2] ELSE "undefined") \o " " \o parts[1]

\* One element of monthly.
MonthStats(e, totalRevenue) ==
    [month |-> e.key,
     month_display |-> MonthDisplay(split(e.key, "-")),
     orders |-> e.orders,
     revenue |-> e.revenue,
     avg_order_value |-> AvgOrderValue(e.orders, e.revenue),
     revenue_pct |-> Times100(JsDiv(e.revenue, totalRevenue))]

\* Object.entries(monthlyMap).map(...).sort(...)
MonthList(entries, totalRevenue) ==
    SortByMonthAsc([i \in 1..Len(entries) |-> MonthStats(entries[i], totalRevenue)])

\* monthlyMap of the rows that carry an order month
MonthlyMap(monthlyRows) == BuildMap(monthlyRows, "month", Len(monthlyRows))

Monthly(rows, totalRevenue) ==
    MonthList(ObjectEntries(MonthlyMap(SelectSeq(rows, LAMBDA r : ~Falsy(r.order_month)))),
              totalRevenue)

NoReport == [none |-> TRUE]

\* if (data.length >= MAX_ROWS) { warning = ...; data = data.slice(0, MAX_ROWS); }
HitRowLimit(data) == RowCount(data) >= MAX_ROWS

\* data.slice(0, MAX_ROWS) when the limit is hit
SliceToLimit(data) == IF HitRowLimit(data) THEN TakeRows(data, MAX_ROWS) ELSE data

\* summary
Summary(totalOrders, totalRevenue) ==
    [total_orders |-> totalOrders,
     total_revenue |-> totalRevenue,
     avg_order_value |-> AvgOrderValue(totalOrders, totalRevenue)]

\* The object processTrafficFile returns.
ReportRecord(summary, channels, sources, mediums, combinations, email_campaigns, monthly, warning) ==
    [summary |-> summary,
     channels |-> channels,
     sources |-> sources,
     mediums |-> mediums,
     combinations |-> combinations,
     email_campaigns |-> email_campaigns,
     monthly |-> monthly,
     insights |-> generateInsights(summary, channels, sources),
     warning |-> warning]

\* Lines 423-558: the report of the enriched rows and their totals.
ReportOfTotals(rows, totalOrders, totalRevenue, warning) ==
    ReportRecord(Summary(totalOrders, totalRevenue),
                 Grouping(rows, "channel", totalOrders, totalRevenue),
                 Grouping(rows, "source", totalOrders, totalRevenue),
                 Grouping(rows, "medium", totalOrders, totalRevenue),
                 Combinations(rows, totalRevenue),
                 EmailCampaigns(rows, totalRevenue),
                 Monthly(rows, totalRevenue),
                 warning)

\* totalOrders = rows.length, totalRevenue = rows.reduce(...)
ReportOfRows(rows, warning) ==
    ReportOfTotals(rows, RowCount(rows), TotalRevenue(rows, Len(rows)), warning)

\* Lines 360-558: the report of the validated rows.
BuildReport(header, data) ==
    ReportOfRows(EnrichRows(header, SliceToLimit(data)),
                 IF HitRowLimit(data) THEN MSG_ROW_LIMIT ELSE "null")

ColumnsOf_Header(decoded) == decoded.header

\* const columns = data.length > 0 ? Object.keys(data[0]) : []
ColumnsOf(decoded) == IF RowCount(decoded.data) > 0 THEN decoded.header ELSE <<>>

\* Lines 352-358 and the rest of the function, after the decoding.
ValidateAndReport(decoded) ==
    LET columns == ColumnsOf(decoded)
        missing == MissingColumns(columns)
    IN  IF decoded.threw
        THEN [threw |-> TRUE, message |-> decoded.message, report |-> NoReport]
        ELSE IF Len(missing) > 0
        THEN [threw |-> TRUE,
              message |-> MSG_MISSING_PREFIX \o join(missing) \o MSG_AVAILABLE_PREFIX \o join(columns),
              report |-> NoReport]
        ELSE [threw |-> FALSE, message |-> "", report |-> BuildReport(decoded.header, decoded.data)]

processTrafficFile(buffer, filename) == ValidateAndReport(DecodeFile(buffer, filename))

(***************************************************************************)
(* POST /api/analyze-traffic                                               *)
(***************************************************************************)

Response(status, error, body) == [status |-> status, error |-> error, body |-> body]

\* The inherited members that map[key].orders++ and map[key].revenue += price
\* write to, over the first k rows, for the map of a dimension: under such a
\* key the map never gets an entry of its own, and the writes outlive the
\* request.
RECURSIVE InheritedWrites(_, _, _)
InheritedWrites(rows, dim, k) ==
    IF k = 0 THEN {}
    ELSE InheritedWrites(rows, dim, k - 1)
            \cup (IF KeyOf(rows[k], dim) \in ObjectPrototypeKeys
                  THEN {KeyOf(rows[k], dim)}
                  ELSE {})

\* The writes of the forEach loops over channelMap, sourceMap, mediumMap and
\* comboMap (the keys of emailMap and monthMap are digits and dashes).
WritesOfRows(rows) ==
    UNION {InheritedWrites(rows, dim, Len(rows)) : dim \in {"channel", "source", "medium", "combo"}}

\* Nothing is written when the function throws: it throws before the loops.
WritesOfFile(decoded) ==
    IF decoded.threw THEN {}
    ELSE IF Len(MissingColumns(ColumnsOf(decoded))) > 0
    THEN {}
    ELSE WritesOfRows(EnrichRows(decoded.header, SliceToLimit(decoded.data)))

\* What a call of processTrafficFile leaves behind in the process.
SideEffects(buffer, filename) == WritesOfFile(DecodeFile(buffer, filename))

Respond_Always200(result) == Response(200, "", result.report)

\* res.json(result), or res.status(400).json({error: error.message}) in the catch
Respond(result) ==
    IF result.threw
    THEN Response(400, result.message, NoReport)
    ELSE Response(200, "", result.report)

\* The handler of the route, from the file multer hands over to the response.
AnalyzeTraffic ==
    /\ pc = "handling"
    /\ res' = IF ~req.hasFile
              THEN Response(400, MSG_NO_FILE, NoReport)
              ELSE Respond(processTrafficFile(req.buffer, req.originalname))
    /\ sent' = sent + 1
    /\ polluted' = polluted \cup (IF ~req.hasFile
                                  THEN {}
                                  ELSE SideEffects(req.buffer, req.originalname))
    /\ pc' = "idle"
    /\ UNCHANGED <<req, call, ret>>

(***************************************************************************)
(* Uploads                                                                 *)
(***************************************************************************)

Upload(name, buffer) == [hasFile |-> TRUE, originalname |-> name, buffer |-> buffer]
Sheet(header, runs) == [error |-> "", header |-> header, runs |-> runs]
Unreadable(message) == [error |-> message, header |-> <<>>, runs |-> <<>>]
Run(cells, n) == [cells |-> cells, n |-> n]

StdHeader == <<"traffic_source", "order_total_price", "order_id", "order_date">>

\* Longest list of runs in a sampled sheet.
MaxRuns == 2

\* Longest list of runs in a sheet sampled for the insights.
MaxInsightRuns == 3

RECURSIVE RunLists(_, _)
RunLists(runs, n) ==
    IF n = 0 THEN {<<>>}
    ELSE LET shorter == RunLists(runs, n - 1)
         IN  shorter \cup {Append(l, r) : l \in {x \in shorter : Len(x) = n - 1}, r \in runs}

\* Rows of every kind of key: plain names, a name that Object.prototype
\* defines, names made of digits, campaign ids; with a price or without one.
TrafficAndDateCells ==
    {<<"utmcsr=google|utmcmd=cpc", Str("05/03/2024")>>,
     <<"utmcsr=constructor|utmcmd=organic", Num(45292)>>,
     <<"utmcsr=007|utmcmd=referral|utmccn=flashyapp_automation_007", Str("")>>,
     <<"utmcsr=7|utmcmd=referral", Str("31/12/2023")>>,
     <<"utmcsr=newsletter|utmcmd=email|utmccn=flashyapp_automation_20", Num(45351)>>,
     <<"utmcsr=newsletter|utmcmd=email|utmccn=flashyapp_automation_3", Str("05/03/2024")>>}

PriceCells == {Str("10"), Str("")}

RunLengths == {1, 2}

RowRuns ==
    {Run(<<Str(td[1]), p, Num(1), td[2]>>, n) :
        td \in TrafficAndDateCells, p \in PriceCells, n \in RunLengths}

RowRequests == {Upload("orders.csv", Sheet(StdHeader, l)) : l \in RunLists(RowRuns, MaxRuns)}

\* Sheets around the row cap.
LimitRuns ==
    {Run(<<Str(t), Str("10"), Num(1), Str("")>>, n) :
        t \in {"utmcsr=google|utmcmd=cpc", "utmcsr=bing|utmcmd=organic"},
        n \in {1, MAX_ROWS - 1, MAX_ROWS, MAX_ROWS + 1}}

LimitRequests == {Upload("orders.xlsx", Sheet(StdHeader, l)) : l \in RunLists(LimitRuns, MaxRuns)}

\* Sheets with every subset of the four columns, with and without a byte-order
\* marker before the first column name, and with 0, 1 or 2 rows.
ColumnCell(column) ==
    CASE column = "traffic_source" -> Str("utmcsr=google|utmcmd=cpc")
      [] column = "order_total_price" -> Str("10")
      [] column = "order_id" -> Num(1)
      [] OTHER -> Str("05/03/2024")

HeaderOf(present, marked) ==
    LET plain == SelectSeq(StdHeader, LAMBDA c : c \in present)
    IN  IF marked /\ Len(plain) > 0 THEN <<BOM \o plain[1]>> \o Tail(plain) ELSE plain

ColumnSheet(present, marked, n) ==
    LET plain == SelectSeq(StdHeader, LAMBDA c : c \in present)
        cells == [i \in 1..Len(plain) |-> ColumnCell(plain[i])]
    IN  Sheet(HeaderOf(present, marked), IF n = 0 THEN <<>> ELSE <<Run(cells, n)>>)

ColumnRequests ==
    {Upload("orders.csv", ColumnSheet(present, marked, n)) :
        present \in SUBSET {StdHeader[i] : i \in 1..Len(StdHeader)},
        marked \in BOOLEAN, n \in 0..2}

\* File names and decoder failures.
FormatRequests ==
    {Upload(name, buffer) :
        name \in {"orders.csv", "orders.CSV", "orders.xlsx", "orders.XLS", "orders.txt",
                  "orders", ".csv", "orders.csv.pdf"},
        buffer \in {Sheet(StdHeader, <<Run(<<Str("utmcsr=google|utmcmd=cpc"), Str("10"),
                                           Num(1), Str("")>>, 1)>>),
                    Unreadable("Invalid string length: string longer than 0x1fffffe8 characters"),
                    Unreadable("JavaScript heap out of memory"),
                    Unreadable("Unsupported ZIP encryption")}}

\* Sheets for the insights: an e-mail channel, an AI-search source and a paid
\* channel, cheap or expensive orders, one order or ten.
InsightRuns ==
    {Run(<<Str(t), Num(p), Num(1), Str("")>>, n) :
        t \in {"utmcsr=newsletter|utmcmd=email", "utmcsr=ChatGPT.com|utmcmd=referral",
               "utmcsr=google|utmcmd=cpc"},
        p \in {1, 100}, n \in {1, 10}}

InsightRequests ==
    {Upload("orders.csv", Sheet(StdHeader, l)) : l \in RunLists(InsightRuns, MaxInsightRuns)}

\* Most distinct (source, medium) pairs in a sheet sampled for the combinations.
MaxCombos == 12

\* The k-th pair: pairs k and k + 1 share a source or differ in it, and
\* alternate between two mediums.
ComboTraffic(k) ==
    "utmcsr=shop" \o NatToString((k + 1) \div 2) \o "|utmcmd="
        \o (IF k % 2 = 0 THEN "cpc" ELSE "referral")

\* The price of the k-th row under a pattern: rising, falling, all equal, or
\* scattered.
ComboPrice(k, pattern) ==
    CASE pattern = "rising" -> k
      [] pattern = "falling" -> 20 - k
      [] pattern = "equal" -> 5
      [] OTHER -> ((k * 7) % 11) + 1

\* One row (or two) per pair for the first k pairs, then, if asked, one more
\* row of the last pair.
ComboSheet(k, pattern, n, again) ==
    Sheet(StdHeader,
          [i \in 1..k |->
                Run(<<Str(ComboTraffic(i)), Num(ComboPrice(i, pattern)), Num(i), Str("")>>, n)]
            \o (IF again
                THEN <<Run(<<Str(ComboTraffic(k)), Num(30), Num(0), Str("")>>, 1)>>
                ELSE <<>>))

ComboRequests ==
    {Upload("orders.csv", ComboSheet(k, pattern, n, again)) :
        k \in (MaxCombos - 4)..MaxCombos,
        pattern \in {"rising", "falling", "equal", "scattered"},
        n \in {1, 2}, again \in BOOLEAN}

\* Sheets of three channels in any order, each with cheap, dearer or expensive
\* orders, one, ten or thirty of them.
WorstTraffic ==
    {"utmcsr=newsletter|utmcmd=email", "utmcsr=partner|utmcmd=referral",
     "utmcsr=google|utmcmd=cpc"}

WorstRuns(t) == {Run(<<Str(t), Num(p), Num(1), Str("")>>, n) : p \in {1, 2, 100}, n \in {1, 10, 30}}

WorstRequests ==
    {Upload("orders.csv", Sheet(StdHeader, <<r1, r2, r3>>)) :
        r1 \in UNION {WorstRuns(t) : t \in WorstTraffic},
        r2 \in UNION {WorstRuns(t) : t \in WorstTraffic},
        r3 \in WorstRuns("utmcsr=google|utmcmd=cpc")}

InitWith(requests) ==
    /\ pc = "handling"
    /\ req \in requests
    /\ res = NoResponse
    /\ call = NoCall
    /\ ret = Pending
    /\ sent = 0
    /\ polluted = {}

Init == InitWith(RowRequests \cup LimitRequests \cup ColumnRequests \cup FormatRequests \cup {NoRequest})

InitInsights == InitWith(InsightRequests)

InitCombos == InitWith(ComboRequests)

InitWorst == InitWith(WorstRequests)

Next == AnalyzeTraffic

\* Requests of every outcome for a server that handles one after another: no
\* file, unsupported names, unreadable bytes, missing columns, no rows, and
\* files that are analysed, some with sources named like inherited members.
ServerSheets ==
    {Sheet(StdHeader, <<Run(<<Str(t), Str("10"), Num(1), Str("05/03/2024")>>, 1)>>) :
        t \in {"utmcsr=google|utmcmd=cpc", "utmcsr=__proto__|utmcmd=referral",
               "utmcsr=bing|utmcmd=constructor", ""}}

ServerRequests ==
    {NoRequest}
        \cup FormatRequests
        \cup {Upload(name, sheet) : name \in {"orders.csv", "orders.xls"}, sheet \in ServerSheets}
        \cup {Upload("orders.csv", ColumnSheet(present, FALSE, n)) :
                present \in {{"traffic_source", "order_total_price", "order_id"},
                             {"traffic_source", "order_id", "order_date"},
                             {"order_date"}, {}},
                n \in 0..1}

\* The next request reaches the route (the server handles one request at a
\* time, the handler being synchronous).
Receive ==
    /\ pc = "idle"
    /\ \E r \in ServerRequests : req' = r
    /\ res' = NoResponse
    /\ sent' = 0
    /\ pc' = "handling"
    /\ UNCHANGED <<call, ret, polluted>>

InitServer == InitWith(ServerRequests)

NextServer == Receive \/ AnalyzeTraffic

Spec == Init /\ [][Next]_vars

SpecInsights == InitInsights /\ [][Next]_vars

SpecCombos == InitCombos /\ [][Next]_vars

SpecWorst == InitWorst /\ [][Next]_vars

SpecServer == InitServer /\ [][NextServer]_vars

(***************************************************************************)
(* Claims about the reports, checked under Spec and SpecInsights           *)
(***************************************************************************)

Responded == pc = "idle"
Reported == pc = "idle" /\ res.status = 200

RECURSIVE SumOrders(_)
SumOrders(groups) == IF groups = <<>> THEN 0 ELSE Head(groups).orders + SumOrders(Tail(groups))

RECURSIVE SumRevenue(_)
SumRevenue(groups) == IF groups = <<>> THEN 0 ELSE Head(groups).revenue + SumRevenue(Tail(groups))

RECURSIVE SumOrderPct(_)
SumOrderPct(groups) ==
    IF groups = <<>> THEN Fin(0, 1) ELSE JsAdd(Head(groups).order_pct, SumOrderPct(Tail(groups)))

RECURSIVE SumRevenuePct(_)
SumRevenuePct(groups) ==
    IF groups = <<>> THEN Fin(0, 1) ELSE JsAdd(Head(groups).revenue_pct, SumRevenuePct(Tail(groups)))

\* The channel, source and medium groupings of the report in the response.
MainGroupings == <<res.body.channels, res.body.sources, res.body.mediums>>

\* C3: in each of the channel, source and medium groupings of every report
\* the order_pct values sum to 100 and the revenue_pct values sum to 100,
\* whatever the prices of the rows.
C3_PercentagesSumTo100 ==
    Reported =>
        \A d \in 1..Len(MainGroupings) :
            /\ SumOrderPct(MainGroupings[d]) = Fin(100, 1)
            /\ SumRevenuePct(MainGroupings[d]) = Fin(100, 1)

\* C4: in every report the order counts of the groups of the channel, source
\* and medium groupings each sum to summary.total_orders, and the group
\* revenues to summary.total_revenue.
C4_GroupsPartitionRows ==
    Reported =>
        \A d \in 1..Len(MainGroupings) :
            /\ SumOrders(MainGroupings[d]) = res.body.summary.total_orders
            /\ SumRevenue(MainGroupings[d]) = res.body.summary.total_revenue

\* The request carries a file of a supported type that the decoder reads.
Decodable ==
    /\ req.hasFile
    /\ req.buffer.error = ""
    /\ \E e \in {".csv", ".xlsx", ".xls"} : EqIgnoreCase(extname(req.originalname), e)

\* The keys of the first decoded row (none when the sheet has no data row).
SeenColumns ==
    IF RowCount(req.buffer.runs) > 0 THEN {req.buffer.header[i] : i \in 1..Len(req.buffer.header)}
    ELSE {}

RequiredKeys == {"traffic_source", "order_total_price", "order_id"}

\* The names that a missing-columns message lists as missing.
NamedMissing(message) ==
    LET rest == Suffix(message, Len(MSG_MISSING_PREFIX) + 1)
        list == split(SubSeq(rest, 1, IndexOfChar(rest, ".") - 1), ",")
    IN  [i \in 1..Len(list) |-> trim(list[i])]

IsMissingColumnsError ==
    /\ res.status = 400
    /\ Len(res.error) >= Len(MSG_MISSING_PREFIX)
    /\ SubSeq(res.error, 1, Len(MSG_MISSING_PREFIX)) = MSG_MISSING_PREFIX

\* C5: a file whose rows lack a required key is rejected with an error that
\* names exactly the missing required keys, and no report is produced; a file
\* that has all three keys is never rejected for missing columns.
C5_MissingColumnsNamed ==
    (Responded /\ Decodable) =>
        LET lacking == RequiredKeys \ SeenColumns
        IN  /\ lacking # {} =>
                /\ IsMissingColumnsError
                /\ res.body = NoReport
                /\ {NamedMissing(res.error)[i] : i \in 1..Len(NamedMissing(res.error))} = lacking
                /\ Len(NamedMissing(res.error)) = Cardinality(lacking)
            /\ lacking = {} => res.status = 200

C5_Witness ==
    /\ Responded
    /\ Decodable
    /\ RequiredKeys \ SeenColumns = {"order_id"}
    /\ IsMissingColumnsError
    /\ NamedMissing(res.error) = <<"order_id">>

\* The header with a byte-order marker before its first name taken away.
Unmarked(header) ==
    IF Len(header) > 0 /\ Len(header[1]) > 0 /\ CharAt(header[1], 1) = BOM
    THEN <<Suffix(header[1], 2)>> \o Tail(header)
    ELSE header

\* C6: a file whose first column name is a required key behind a byte-order
\* marker passes required-column validation, and its rows are analysed with
\* that column's values exactly as if the marker were absent.
C6_ByteOrderMarkTolerated ==
    (/\ Responded
     /\ Decodable
     /\ RowCount(req.buffer.runs) > 0
     /\ Unmarked(req.buffer.header) # req.buffer.header
     /\ Unmarked(req.buffer.header)[1] \in RequiredKeys
     /\ RequiredKeys \subseteq {Unmarked(req.buffer.header)[i] : i \in 1..Len(req.buffer.header)})
        => /\ res.status = 200
           /\ res.body = processTrafficFile([req.buffer EXCEPT !.header = Unmarked(@)],
                                            req.originalname).report

\* C7: the report carries the row-limit warning exactly when the file has more
\* data rows than MAX_ROWS, and then the first MAX_ROWS rows are analysed; a
\* file with MAX_ROWS rows or fewer is analysed in full with warning = null;
\* the condition is never fatal.
C7_WarningIffOverCap ==
    (Responded /\ Decodable /\ RequiredKeys \subseteq SeenColumns) =>
        LET n == RowCount(req.buffer.runs)
        IN  /\ res.status = 200
            /\ (res.body.warning # "null") <=> (n > MAX_ROWS)
            /\ res.body.summary.total_orders = IF n > MAX_ROWS THEN MAX_ROWS ELSE n

\* The icons of the six rules, in rule order: top channel, high average
\* value, low average value, top 3 sources, emerging source, e-mail stats.
RuleIcons == <<"trophy", "gem", "alert", "chart", "rocket", "mail">>

RulePosition(icon) == CHOOSE k \in 1..Len(RuleIcons) : RuleIcons[k] = icon

HasInsight(icon) == \E i \in 1..Len(res.body.insights) : res.body.insights[i].icon = icon

\* The gates of the rules, over the groups of the report, in integers:
\* revenue / orders against 1.2 or 0.8 times total_revenue / total_orders.
AboveAverage(c) ==
    c.revenue * res.body.summary.total_orders * 10 > res.body.summary.total_revenue * 12 * c.orders

BelowAverage(c) ==
    c.revenue * res.body.summary.total_orders * 10 < res.body.summary.total_revenue * 8 * c.orders

InsightsInRuleOrder ==
    LET insights == res.body.insights
    IN  /\ \A i \in 1..Len(insights) : \E k \in 1..Len(RuleIcons) : RuleIcons[k] = insights[i].icon
        /\ \A i, j \in 1..Len(insights) :
                i < j => RulePosition(insights[i].icon) < RulePosition(insights[j].icon)

InsightsFollowGates ==
    LET channels == res.body.channels
        sources == res.body.sources
    IN  /\ HasInsight("trophy") <=> Len(channels) >= 1
        /\ HasInsight("gem") <=> \E i \in 1..Len(channels) : AboveAverage(channels[i])
        /\ HasInsight("alert") <=>
                \E i \in 1..Len(channels) : BelowAverage(channels[i]) /\ channels[i].orders >= 10
        /\ HasInsight("chart") <=> Len(sources) >= 3
        /\ HasInsight("rocket") <=>
                \E i \in 1..Len(sources), k \in 1..Len(emerging) :
                    ContainsIgnoreCase(sources[i].name, emerging[k])
        /\ HasInsight("mail") <=>
                \E i \in 1..Len(channels) :
                    channels[i].name = "Email Marketing" /\ channels[i].orders >= 10

\* C8 as stated: the insights list holds between 0 and 5 items, in the fixed
\* rule order, the top-channel item whenever a channel exists and each other
\* item exactly when its own gate holds.
C8_AtMostFiveInsights ==
    Reported =>
        /\ Len(res.body.insights) \in 0..5
        /\ InsightsInRuleOrder
        /\ InsightsFollowGates

\* C8, amended: the insights list holds between 0 and 6 items (one per rule),
\* in the fixed rule order, the top-channel item whenever a channel exists and
\* each other item exactly when its own gate holds.
C8_AtMostSixInsights ==
    Reported =>
        /\ Len(res.body.insights) \in 0..6
        /\ InsightsInRuleOrder
        /\ InsightsFollowGates

C8_Witness ==
    /\ Reported
    /\ [i \in 1..Len(res.body.insights) |-> res.body.insights[i].icon] = RuleIcons

\* The enriched rows that the report of the request is built from.
AnalysedRows == EnrichRows(req.buffer.header, TakeRows(req.buffer.runs, MAX_ROWS))

\* The first row whose key in the dimension is the given one.
FirstSeen(rows, dim, key) ==
    CHOOSE i \in 1..Len(rows) :
        /\ KeyOf(rows[i], dim) = key
        /\ \A j \in 1..(i - 1) : KeyOf(rows[j], dim) # key

RowsOfDimension(dim) ==
    CASE dim = "email" -> SelectSeq(AnalysedRows, LAMBDA r : ~Falsy(r.email_campaign_id))
      [] OTHER -> AnalysedRows

\* The keys of the groups of a revenue-ranked grouping, and their revenues.
RankedKeys(dim) ==
    CASE dim = "channel" -> [i \in 1..Len(res.body.channels) |-> res.body.channels[i].name]
      [] dim = "source" -> [i \in 1..Len(res.body.sources) |-> res.body.sources[i].name]
      [] dim = "medium" -> [i \in 1..Len(res.body.mediums) |-> res.body.mediums[i].name]
      [] dim = "combo" -> [i \in 1..Len(res.body.combinations) |->
                            res.body.combinations[i].source \o "|||"
                                \o res.body.combinations[i].medium]
      [] OTHER -> [i \in 1..Len(res.body.email_campaigns) |->
                            res.body.email_campaigns[i].campaign_id]

RankedRevenues(dim) ==
    CASE dim = "channel" -> [i \in 1..Len(res.body.channels) |-> res.body.channels[i].revenue]
      [] dim = "source" -> [i \in 1..Len(res.body.sources) |-> res.body.sources[i].revenue]
      [] dim = "medium" -> [i \in 1..Len(res.body.mediums) |-> res.body.mediums[i].revenue]
      [] dim = "combo" -> [i \in 1..Len(res.body.combinations) |->
                            res.body.combinations[i].revenue]
      [] OTHER -> [i \in 1..Len(res.body.email_campaigns) |->
                            res.body.email_campaigns[i].revenue]

RankedDimensions == {"channel", "source", "medium", "combo", "email"}

\* A key made of digits that reads as a whole number without a leading zero,
\* at most 4294967294.
IsWholeNumberKey(key) ==
    /\ Len(key) \in 1..10
    /\ \A i \in 1..Len(key) : IsDigit(CharAt(key, i))
    /\ Len(key) = 1 \/ CharAt(key, 1) # "0"
    /\ Len(key) = 10 => ~StringLess("4294967294", key)

\* a < b as numbers, for two such keys.
WholeNumberLess(a, b) == Len(a) < Len(b) \/ (Len(a) = Len(b) /\ StringLess(a, b))

\* C9 as stated: in every revenue-ranked grouping two groups with equal
\* revenue appear in the order in which their keys were first encountered in
\* the rows, whatever the keys look like.
C9_TiesInFirstSeenOrder ==
    Reported =>
        \A dim \in RankedDimensions :
            \A i, j \in 1..Len(RankedKeys(dim)) :
                (i < j /\ RankedRevenues(dim)[i] = RankedRevenues(dim)[j]) =>
                    FirstSeen(RowsOfDimension(dim), dim, RankedKeys(dim)[i])
                        < FirstSeen(RowsOfDimension(dim), dim, RankedKeys(dim)[j])

\* C9, amended: two groups with equal revenue appear with whole-number keys
\* (digits without a leading zero, at most 4294967294) first, in ascending
\* numeric order, and then the groups with other keys in the order in which
\* their keys were first encountered in the rows.
C9_TiesInKeyEnumerationOrder ==
    Reported =>
        \A dim \in RankedDimensions :
            \A i, j \in 1..Len(RankedKeys(dim)) :
                (i < j /\ RankedRevenues(dim)[i] = RankedRevenues(dim)[j]) =>
                    LET a == RankedKeys(dim)[i]
                        b == RankedKeys(dim)[j]
                    IN  IF IsWholeNumberKey(a) /\ IsWholeNumberKey(b)
                        THEN WholeNumberLess(a, b)
                        ELSE IF IsWholeNumberKey(a) \/ IsWholeNumberKey(b)
                        THEN IsWholeNumberKey(a)
                        ELSE FirstSeen(RowsOfDimension(dim), dim, a)
                                < FirstSeen(RowsOfDimension(dim), dim, b)

C9_Witness ==
    /\ Reported
    /\ Len(res.body.email_campaigns) = 2
    /\ res.body.email_campaigns[1].campaign_id = "3"
    /\ res.body.email_campaigns[2].campaign_id = "20"
    /\ res.body.email_campaigns[1].revenue = res.body.email_campaigns[2].revenue
    /\ AnalysedRows[1].email_campaign_id = Str("20")

\* The analysed rows that carry an order month.
MonthRows == SelectSeq(AnalysedRows, LAMBDA r : ~Falsy(r.order_month))

\* The year and the month number that a month key names.
YearOfKey(key) == DigitsValue(split(key, "-")[1], 0)
MonthOfKey(key) == DigitsValue(split(key, "-")[2], 0)

\* Month a lies before month b in time.
Earlier(a, b) ==
    \/ YearOfKey(a) < YearOfKey(b)
    \/ YearOfKey(a) = YearOfKey(b) /\ MonthOfKey(a) < MonthOfKey(b)

\* The request is a readable file of a supported type with the required columns.
Valid == Decodable /\ RequiredKeys \subseteq SeenColumns

\* C11: the monthly grouping holds one entry per distinct order_month of the
\* rows that have a month, its order counts sum to the number of such rows,
\* and its entries are in ascending order of time whatever the order of the
\* rows; when no row has a month it is empty and the report is still produced.
C11_MonthlyChronological ==
    (Responded /\ Valid) =>
        /\ res.status = 200
        /\ {res.body.monthly[i].month : i \in 1..Len(res.body.monthly)}
                = {MonthRows[i].order_month.s : i \in 1..Len(MonthRows)}
        /\ \A i, j \in 1..Len(res.body.monthly) :
                i < j => Earlier(res.body.monthly[i].month, res.body.monthly[j].month)
        /\ SumOrders(res.body.monthly) = RowCount(MonthRows)
        /\ MonthRows = <<>> => res.body.monthly = <<>>

\* Two months, the later one first in the rows and the earlier one with the
\* smaller revenue.
C11_Witness ==
    /\ Reported
    /\ Len(res.body.monthly) = 2
    /\ MonthRows[1].order_month.s = res.body.monthly[2].month
    /\ res.body.monthly[1].revenue < res.body.monthly[2].revenue
    /\ Earlier(res.body.monthly[1].month, res.body.monthly[2].month)

\* The (source, medium) pairs of rows, and the revenue of the first k rows
\* that falls to a pair.
PairsOfRows(rows) == {<<rows[i].source, rows[i].medium>> : i \in 1..Len(rows)}

RECURSIVE RevenueOfPair(_, _, _)
RevenueOfPair(rows, pair, k) ==
    IF k = 0 THEN 0
    ELSE RevenueOfPair(rows, pair, k - 1)
            + (IF <<rows[k].source, rows[k].medium>> = pair
               THEN rows[k].n * rows[k].order_total_price
               ELSE 0)

ListedPairs(combinations) ==
    [i \in 1..Len(combinations) |-> <<combinations[i].source, combinations[i].medium>>]

\* The list is the top ten of the ranking of the pairs of the rows.
IsTopTen(combinations, listed, rows, pairs) ==
    /\ Len(listed) <= 10
    /\ \A i, j \in 1..Len(listed) : i # j => listed[i] # listed[j]
    /\ \A i \in 1..Len(listed) :
            /\ listed[i] \in pairs
            /\ combinations[i].revenue = RevenueOfPair(rows, listed[i], Len(rows))
    /\ \A i, j \in 1..Len(listed) :
            i < j => combinations[i].revenue >= combinations[j].revenue
    /\ \A pair \in pairs \ {listed[i] : i \in 1..Len(listed)} :
            /\ Cardinality(pairs) > 10
            /\ \A i \in 1..Len(listed) :
                    RevenueOfPair(rows, pair, Len(rows)) <= combinations[i].revenue

\* C12: the combinations list has at most 10 entries, one per distinct
\* (source, medium) pair, in non-increasing revenue order; every pair of the
\* rows that is left out has revenue at most that of every listed pair, and a
\* pair is left out only when more than 10 distinct pairs exist.
C12_CombinationsTopTen ==
    Reported =>
        IsTopTen(res.body.combinations, ListedPairs(res.body.combinations),
                 AnalysedRows, PairsOfRows(AnalysedRows))

\* More than ten pairs, and the pair of the first row is among those left out.
LeavesOutFirstRow(listed, rows) ==
    /\ Cardinality(PairsOfRows(rows)) > 10
    /\ Len(listed) = 10
    /\ \A i \in 1..Len(listed) : listed[i] # <<rows[1].source, rows[1].medium>>

C12_Witness == Reported /\ LeavesOutFirstRow(ListedPairs(res.body.combinations), AnalysedRows)

\* The revenues of a list of groups never rise along the list.
NonIncreasing(revenues) ==
    \A i, j \in 1..Len(revenues) : i < j => revenues[i] >= revenues[j]

\* The campaigns are exactly the ids of the rows that carry one, each once,
\* and count those rows and no others.
CampaignsOfRows(campaigns, emailRows) ==
    /\ {campaigns[i].campaign_id : i \in 1..Len(campaigns)}
            = {emailRows[i].email_campaign_id.s : i \in 1..Len(emailRows)}
    /\ \A i, j \in 1..Len(campaigns) :
            i # j => campaigns[i].campaign_id # campaigns[j].campaign_id
    /\ \A i \in 1..Len(campaigns) :
            campaigns[i].orders
                = RowCount(SelectSeq(emailRows,
                        LAMBDA r : r.email_campaign_id.s = campaigns[i].campaign_id))
    /\ SumOrders(campaigns) = RowCount(emailRows)

\* C13: in every report the channel, source and medium groupings are each in
\* non-increasing order of revenue, and the email-campaign grouping holds
\* exactly the campaign ids of the rows that have one (rows without an id
\* count for no campaign), also in non-increasing order of revenue.
C13_GroupingsRankedByRevenue ==
    Reported =>
        /\ \A dim \in {"channel", "source", "medium", "email"} :
                NonIncreasing(RankedRevenues(dim))
        /\ CampaignsOfRows(res.body.email_campaigns, RowsOfDimension("email"))

\* Two sources, the one of the second row ranked first, and one campaign that
\* only one of the two rows belongs to.
C13_Witness ==
    /\ Reported
    /\ Len(res.body.sources) = 2
    /\ res.body.sources[1].revenue > res.body.sources[2].revenue
    /\ res.body.sources[1].name = AnalysedRows[2].source
    /\ Len(res.body.email_campaigns) = 1
    /\ res.body.email_campaigns[1].orders < res.body.summary.total_orders

\* The request is one of the failures the endpoint answers with an error: no
\* file, a name without a supported extension, bytes the decoder cannot read,
\* or rows that lack a required key.
IsFailure == ~Decodable \/ ~(RequiredKeys \subseteq SeenColumns)

\* The response to a handled request: exactly one, the report on success,
\* status 400 with one message on failure; the server then takes the next
\* request.
OneResponse ==
    pc = "idle" =>
        /\ sent = 1
        /\ IsFailure => /\ res.status = 400
                        /\ res.error # ""
                        /\ res.body = NoReport
        /\ ~IsFailure => /\ res.status = 200
                         /\ res.error = ""
                         /\ res.body # NoReport
                         /\ res.body = processTrafficFile(req.buffer, req.originalname).report
        /\ ENABLED Receive

\* A request that is answered with an error leaves every member of
\* Object.prototype as it was.
FailureLeavesNoState == (pc = "handling" /\ res'.status = 400) => polluted' = polluted

\* C14: every request ends with exactly one response, the report on success
\* or status 400 with a single message when no file was sent, the extension
\* is unsupported, the decoder fails or required columns are missing; the
\* server then serves the next request, and a failed request leaves no state
\* behind for it.
C14_OneResponsePerRequest == [](OneResponse) /\ [][FailureLeavesNoState]_vars

\* A failed request answered after an earlier request has left writes behind.
C14_Witness ==
    /\ pc = "idle"
    /\ res.status = 400
    /\ sent = 1
    /\ polluted = {"__proto__", "constructor"}

\* The channels of the report that pass both gates of the low-value rule.
LowValueChannels(channels) ==
    {i \in 1..Len(channels) : BelowAverage(channels[i]) /\ channels[i].orders >= 10}

\* Channel c has an average order value no higher than channel d.
NoDearer(c, d) == c.revenue * d.orders <= d.revenue * c.orders

\* The names the low-value warning carries.
WarnedNames(insights) ==
    {insights[i].names : i \in {k \in 1..Len(insights) : insights[k].icon = "alert"}}

\* C15: when some channel has an average order value below 0.8 times the
\* overall average and at least 10 orders, the low-value warning names the
\* channel with the lowest average order value among those channels; when
\* none qualifies there is no such warning.
LowestIsWarned(channels, low, warned) ==
    /\ low = {} => warned = {}
    /\ low # {} =>
            \E i \in low :
                /\ warned = {<<channels[i].name>>}
                /\ \A j \in low : NoDearer(channels[i], channels[j])

C15_WarnsLowestValueChannel ==
    Reported =>
        LowestIsWarned(res.body.channels, LowValueChannels(res.body.channels),
                       WarnedNames(res.body.insights))

\* What the code does: the warning names the qualifying channel that is last
\* in the revenue ranking.
LastRankedIsWarned(channels, low, warned) ==
    /\ low = {} => warned = {}
    /\ low # {} => \E i \in low : warned = {<<channels[i].name>>} /\ \A j \in low : j <= i

\* C16: an upload that decodes to zero data rows yields no report: it is
\* rejected with an error that lists all three required keys as missing; so
\* every report has total_orders >= 1 and at least one channel, and its
\* average order value is the quotient of the totals, never the value of the
\* no-orders branch.
C16_NoRowsNoReport ==
    /\ (Responded /\ Decodable /\ RowCount(req.buffer.runs) = 0) =>
            /\ IsMissingColumnsError
            /\ NamedMissing(res.error) = required
            /\ res.body = NoReport
    /\ Reported =>
            /\ res.body.summary.total_orders >= 1
            /\ Len(res.body.channels) >= 1
            /\ res.body.summary.avg_order_value
                    = JsDiv(res.body.summary.total_revenue, res.body.summary.total_orders)

\* A sheet whose header has every required name and which has no data row.
C16_Witness ==
    /\ Responded
    /\ Decodable
    /\ RowCount(req.buffer.runs) = 0
    /\ RequiredKeys \subseteq {req.buffer.header[i] : i \in 1..Len(req.buffer.header)}
    /\ IsMissingColumnsError
    /\ NamedMissing(res.error) = required

====
